---- MODULE Spec2Model ----
(***************************************************************************)
(* CarGrader lookup service (src/app.py): a Flask application answering     *)
(* /api/years, /api/makes, /api/models, /api/grade and /api/health from a   *)
(* read-only SQLite table AllCars.                                          *)
(*                                                                          *)
(* Text is a tuple of one-character strings, so that TRIM, CAST and the     *)
(* request parser int() are computed character by character.  A nullable    *)
(* column value is a record [null, s] or [null, n]; an optional Python      *)
(* value is a record [some, ...].  Score and Certainty are kept in          *)
(* hundredths, ROUND(x, 1) yields tenths.                                   *)
(***************************************************************************)
EXTENDS Integers, Sequences, FiniteSets, TLC

VARIABLES table, source, req, conns

vars == <<table, source, req, conns>>

----------------------------------------------------------------------------
(* Bounds of the model.                                                    *)

MaxRows == 2

NumWorkers == 2

----------------------------------------------------------------------------
(* HTTP status codes of the responses.                                     *)

StatusOk == 200

StatusNoContent == 204

StatusBadRequest == 400

StatusNotFound == 404

StatusServerError == 500

----------------------------------------------------------------------------
(* Text as character tuples.                                               *)

Digit == {"0", "1", "2", "3", "4", "5", "6", "7", "8", "9"}

DigitVal(c) ==
  CASE c = "0" -> 0 [] c = "1" -> 1 [] c = "2" -> 2 [] c = "3" -> 3
    [] c = "4" -> 4 [] c = "5" -> 5 [] c = "6" -> 6 [] c = "7" -> 7
    [] c = "8" -> 8 [] c = "9" -> 9

\* Byte value of a character: the order memcmp (BINARY collation) sorts by.
Ord(c) ==
  CASE c = " " -> 32 [] c = "+" -> 43 [] c = "-" -> 45
    [] c \in Digit -> 48 + DigitVal(c)
    [] c = "A" -> 65 [] c = "B" -> 66 [] c = "x" -> 120

RECURSIVE LStrip(_)
LStrip(s) == IF s # <<>> /\ Head(s) = " " THEN LStrip(Tail(s)) ELSE s

RECURSIVE RStrip(_)
RStrip(s) ==
  IF s # <<>> /\ s[Len(s)] = " " THEN RStrip(SubSeq(s, 1, Len(s) - 1)) ELSE s

\* Value of the longest prefix of digits of s, continuing from acc.
RECURSIVE DigitPrefix(_, _)
DigitPrefix(s, acc) ==
  IF s # <<>> /\ Head(s) \in Digit
  THEN DigitPrefix(Tail(s), 10 * acc + DigitVal(Head(s)))
  ELSE acc

RECURSIVE TextLess(_, _)
TextLess(a, b) ==
  IF b = <<>> THEN FALSE
  ELSE IF a = <<>> THEN TRUE
  ELSE IF Head(a) = Head(b) THEN TextLess(Tail(a), Tail(b))
  ELSE Ord(Head(a)) < Ord(Head(b))

----------------------------------------------------------------------------
(* SQLite values and scalar functions used by the queries.                 *)

NullText == [null |-> TRUE, s |-> <<>>]

Text(s) == [null |-> FALSE, s |-> s]

NullNum == [null |-> TRUE, n |-> 0]

Num(n) == [null |-> FALSE, n |-> n]

\* TRIM(X): removes spaces from both ends; NULL stays NULL.
SqlTrim(v) == IF v.null THEN NullText ELSE Text(RStrip(LStrip(v.s)))

\* CAST(X AS INTEGER) of a text: leading spaces are skipped, an optional sign
\* and the longest prefix of digits are converted, the rest is ignored; a text
\* with no such prefix converts to 0.  NULL stays NULL.
SqlCastInteger(v) ==
  IF v.null THEN NullNum
  ELSE LET t == LStrip(v.s)
       IN IF t # <<>> /\ Head(t) = "-" THEN Num(0 - DigitPrefix(Tail(t), 0))
          ELSE IF t # <<>> /\ Head(t) = "+" THEN Num(DigitPrefix(Tail(t), 0))
          ELSE Num(DigitPrefix(t, 0))

\* ROUND(X, 1) of a value in hundredths, as tenths, halves away from zero.
SqlRound1(h) == IF h >= 0 THEN (h + 5) \div 10 ELSE 0 - ((5 - h) \div 10)

\* CAST(TRIM(ModelYear) AS INTEGER)
CastYear(r) == SqlCastInteger(SqlTrim(r.ModelYear))

\* Score IS NOT NULL AND Certainty IS NOT NULL
Gradeable(r) == ~r.Score.null /\ ~r.Certainty.null

\* A comparison with NULL is not true.
SqlEqNum(v, n) == ~v.null /\ v.n = n

SqlEqText(v, s) == ~v.null /\ v.s = s

\* ORDER BY of a text column: NULL first, then bytewise.
ValueLeq(a, b) ==
  \/ a.null
  \/ ~b.null /\ (a.s = b.s \/ TextLess(a.s, b.s))

\* SELECT DISTINCT: the first occurrence of each value is kept.
RECURSIVE Distinct(_)
Distinct(q) ==
  IF q = <<>> THEN <<>>
  ELSE LET rest == Distinct(SubSeq(q, 1, Len(q) - 1))
           x == q[Len(q)]
       IN IF \E i \in 1..Len(rest) : rest[i] = x THEN rest ELSE Append(rest, x)

RECURSIVE InsertText(_, _)
InsertText(x, q) ==
  IF q = <<>> THEN <<x>>
  ELSE IF ValueLeq(Head(q), x) THEN <<Head(q)>> \o InsertText(x, Tail(q))
  ELSE <<x>> \o q

\* ORDER BY <text column> (ascending)
RECURSIVE OrderByText(_)
OrderByText(q) ==
  IF q = <<>> THEN <<>>
  ELSE InsertText(q[Len(q)], OrderByText(SubSeq(q, 1, Len(q) - 1)))

\* Descending order of integer values: NULL last.
NumGeq(a, b) == b.null \/ (~a.null /\ a.n >= b.n)

RECURSIVE InsertDesc(_, _)
InsertDesc(x, q) ==
  IF q = <<>> THEN <<x>>
  ELSE IF NumGeq(Head(q), x) THEN <<Head(q)>> \o InsertDesc(x, Tail(q))
  ELSE <<x>> \o q

\* ORDER BY Y DESC
RECURSIVE OrderByDesc(_)
OrderByDesc(q) ==
  IF q = <<>> THEN <<>>
  ELSE InsertDesc(q[Len(q)], OrderByDesc(SubSeq(q, 1, Len(q) - 1)))

----------------------------------------------------------------------------
(* Python values and the request parameters (werkzeug's args.get).         *)

None == [some |-> FALSE, s |-> <<>>]

Str(s) == [some |-> TRUE, s |-> s]

NoInt == [some |-> FALSE, n |-> 0]

Int_(n) == [some |-> TRUE, n |-> n]

\* int(s): surrounding whitespace is stripped, an optional sign is followed by
\* digits only and at least one; anything else raises ValueError.
PyInt(s) ==
  LET t == RStrip(LStrip(s))
      signed == t # <<>> /\ Head(t) \in {"+", "-"}
      body == IF signed THEN Tail(t) ELSE t
  IN IF body # <<>> /\ \A i \in 1..Len(body) : body[i] \in Digit
     THEN Int_(IF signed /\ Head(t) = "-" THEN 0 - DigitPrefix(body, 0)
               ELSE DigitPrefix(body, 0))
     ELSE NoInt

\* request.args.get(key, type=int): None when the key is absent or int() raises.
ArgInt(p) == IF p.some THEN PyInt(p.s) ELSE NoInt

\* request.args.get(key, type=str): the text as sent, None when absent.
ArgStr(p) == p

\* not x, for x a str or None.
Falsy(p) == ~p.some \/ p.s = <<>>

----------------------------------------------------------------------------
(* Responses: jsonify(list), jsonify(object) with a status.                *)

NoResponse ==
  [status |-> 0, kind |-> "none", items |-> <<>>, error |-> "",
   score |-> 0, certainty |-> 0]

ListResponse(items, status) ==
  [status |-> status, kind |-> "list", items |-> items, error |-> "",
   score |-> 0, certainty |-> 0]

ErrorResponse(msg, status) ==
  [status |-> status, kind |-> "error", items |-> <<>>, error |-> msg,
   score |-> 0, certainty |-> 0]

GradeResponse(score, certainty) ==
  [status |-> StatusOk, kind |-> "grade", items |-> <<>>, error |-> "",
   score |-> score, certainty |-> certainty]

HealthResponse(exists, countAll, countReady) ==
  [status |-> StatusOk, kind |-> "health",
   items |-> <<IF exists THEN 1 ELSE 0, countAll, countReady>>,
   error |-> "", score |-> 0, certainty |-> 0]

PageResponse(status) ==
  [status |-> status, kind |-> "page", items |-> <<>>, error |-> "",
   score |-> 0, certainty |-> 0]

----------------------------------------------------------------------------
(* The data source: the rows of AllCars in the order a scan meets them.    *)

Row(y, mk, mo, sc, ce) ==
  [ModelYear |-> y, Make |-> mk, Model |-> mo, Score |-> sc, Certainty |-> ce]

BaseRow ==
  Row(Text(<<"1">>), Text(<<"A">>), Text(<<"A">>), Num(783), Num(426))

YearTexts ==
  {Text(<<"1">>), NullText, Text(<<>>), Text(<<" ">>), Text(<<"x">>),
   Text(<<" ", "1", " ">>), Text(<<"0", "1">>), Text(<<"2">>)}

MakeTexts == {Text(<<"A">>), NullText, Text(<<>>), Text(<<" ">>), Text(<<"B">>)}

ModelTexts == {Text(<<"A">>), NullText, Text(<<>>), Text(<<"B">>)}

Scores == {Num(783), NullNum, Num(125)}

Certainties == {Num(426), NullNum}

Differs(a, b) == IF a = b THEN 0 ELSE 1

\* The rows that differ from BaseRow in at most one column.
Rows ==
  {r \in [ModelYear : YearTexts, Make : MakeTexts, Model : ModelTexts,
          Score : Scores, Certainty : Certainties] :
     Differs(r.ModelYear, BaseRow.ModelYear) + Differs(r.Make, BaseRow.Make)
       + Differs(r.Model, BaseRow.Model) + Differs(r.Score, BaseRow.Score)
       + Differs(r.Certainty, BaseRow.Certainty) <= 1}

\* Rows sharing one (year, make, model) with different scores.
DuplicateRows ==
  {r \in Rows : r.ModelYear = BaseRow.ModelYear /\ r.Make = BaseRow.Make
                 /\ r.Model = BaseRow.Model /\ r.Certainty = BaseRow.Certainty}

TablesOf(R, n) == UNION {[1..k -> R] : k \in 0..n}

Sources == {"ok", "unreachable", "notable", "malformed"}

----------------------------------------------------------------------------
(* The requests clients send.                                              *)

Call(op, y, mk, mo) == [op |-> op, year |-> y, make |-> mk, model |-> mo]

YearArgs ==
  {Str(<<"1">>), None, Str(<<"x">>), Str(<<"0">>), Str(<<"2">>)}

MakeArgs == {Str(<<"A">>), None, Str(<<>>), Str(<<" ">>)}

ModelArgs == {Str(<<"A">>), None, Str(<<>>)}

BaseCall == Call("grade", Str(<<"1">>), Str(<<"A">>), Str(<<"A">>))

\* Every endpoint, with at most one parameter differing from BaseCall.
Calls ==
  {Call(op, None, None, None) : op \in {"index", "favicon", "health", "years"}}
  \cup {Call("makes", y, None, None) : y \in YearArgs}
  \cup {c \in [op : {"models"}, year : YearArgs, make : MakeArgs, model : {None}] :
          Differs(c.year, BaseCall.year) + Differs(c.make, BaseCall.make) <= 1}
  \cup {c \in [op : {"grade"}, year : YearArgs, make : MakeArgs, model : ModelArgs] :
          Differs(c.year, BaseCall.year) + Differs(c.make, BaseCall.make)
            + Differs(c.model, BaseCall.model) <= 1}

\* The requests of the concurrent runs.
ConcCalls ==
  {Call("years", None, None, None), Call("health", None, None, None),
   BaseCall, Call("grade", None, Str(<<"A">>), Str(<<"A">>))}

----------------------------------------------------------------------------
(* The queries, over the rows of AllCars.                                  *)

Column(q, name) == [i \in 1..Len(q) |-> q[i][name]]

\* YearsQuery with DISTINCT taken over the stored text instead of the integer.
YearsQueryDistinctText(t) ==
  LET Keep(r) == /\ Gradeable(r)
                 /\ ~r.ModelYear.null
                 /\ SqlTrim(r.ModelYear).s # <<>>
      texts == Distinct(Column(SelectSeq(t, Keep), "ModelYear"))
  IN OrderByDesc([i \in 1..Len(texts) |-> SqlCastInteger(SqlTrim(texts[i]))])

\* SELECT DISTINCT CAST(TRIM(ModelYear) AS INTEGER) AS Y ... ORDER BY Y DESC
YearsQuery(t) ==
  LET Keep(r) == /\ Gradeable(r)
                 /\ ~r.ModelYear.null
                 /\ SqlTrim(r.ModelYear).s # <<>>
      kept == SelectSeq(t, Keep)
  IN OrderByDesc(Distinct([i \in 1..Len(kept) |-> CastYear(kept[i])]))

\* SELECT DISTINCT Make ... WHERE CAST(TRIM(ModelYear) AS INTEGER) = ? ...
MakesQuery(t, year) ==
  LET Keep(r) == SqlEqNum(CastYear(r), year) /\ Gradeable(r)
  IN OrderByText(Distinct(Column(SelectSeq(t, Keep), "Make")))

\* SELECT DISTINCT Model ... WHERE CAST(...) = ? AND Make = ? ...
ModelsQuery(t, year, make) ==
  LET Keep(r) == /\ SqlEqNum(CastYear(r), year)
                 /\ SqlEqText(r.Make, make)
                 /\ Gradeable(r)
  IN OrderByText(Distinct(Column(SelectSeq(t, Keep), "Model")))

\* SELECT ROUND(Score, 1), ROUND(Certainty, 1) ... LIMIT 1: the rows that match,
\* in scan order, cut after the first.
GradeQuery(t, year, make, model) ==
  LET Keep(r) == /\ SqlEqNum(CastYear(r), year)
                 /\ SqlEqText(r.Make, make)
                 /\ SqlEqText(r.Model, model)
                 /\ Gradeable(r)
      hit == SelectSeq(t, Keep)
  IN IF hit = <<>> THEN <<>>
     ELSE <<[ScoreRounded |-> SqlRound1(hit[1].Score.n),
             CertaintyRounded |-> SqlRound1(hit[1].Certainty.n)]>>

\* SELECT COUNT(*) ... WHERE Score IS NOT NULL AND Certainty IS NOT NULL
CountReady(t) == Len(SelectSeq(t, Gradeable))

----------------------------------------------------------------------------
(* The handlers.  r is the request being served: its parameters and its    *)
(* context g (r.db, 0 while "db" is not in g).                             *)

ListOps == {"years", "makes", "models"}

\* EarlyReturn without any test of make: models tests the year only.
EarlyReturnAnyMake(r) ==
  CASE r.op \in {"index", "favicon"} -> TRUE
    [] r.op = "makes" -> ~ArgInt(r.year).some
    [] r.op = "models" -> ~ArgInt(r.year).some
    [] r.op = "grade" -> \/ ~ArgInt(r.year).some
                         \/ Falsy(ArgStr(r.make))
                         \/ Falsy(ArgStr(r.model))
    [] OTHER -> FALSE

\* EarlyReturn with grade's test of model forgotten.
EarlyReturnNoModel(r) ==
  CASE r.op \in {"index", "favicon"} -> TRUE
    [] r.op = "makes" -> ~ArgInt(r.year).some
    [] r.op = "models" -> ~ArgInt(r.year).some \/ Falsy(ArgStr(r.make))
    [] r.op = "grade" -> ~ArgInt(r.year).some \/ Falsy(ArgStr(r.make))
    [] OTHER -> FALSE

\* The handler returns before it touches the data source.
EarlyReturn(r) ==
  CASE r.op \in {"index", "favicon"} -> TRUE
    [] r.op = "makes" -> ~ArgInt(r.year).some
    [] r.op = "models" -> ~ArgInt(r.year).some \/ Falsy(ArgStr(r.make))
    [] r.op = "grade" -> \/ ~ArgInt(r.year).some
                         \/ Falsy(ArgStr(r.make))
                         \/ Falsy(ArgStr(r.model))
    [] OTHER -> FALSE

EarlyResponse(r) ==
  CASE r.op = "index" -> PageResponse(StatusOk)
    [] r.op = "favicon" -> PageResponse(StatusNoContent)
    [] r.op = "grade" -> ErrorResponse("Missing params", StatusBadRequest)
    [] OTHER -> ListResponse(<<>>, StatusOk)

\* ExceptResponse answering every endpoint the way grade does.
ExceptResponseObject(r) ==
  CASE r.op = "health" -> ErrorResponse("str(e)", StatusServerError)
    [] OTHER -> ErrorResponse("Server error", StatusServerError)

\* The except branch of the handler.
ExceptResponse(r) ==
  CASE r.op \in ListOps -> ListResponse(<<>>, StatusServerError)
    [] r.op = "grade" -> ErrorResponse("Server error", StatusServerError)
    [] OTHER -> ErrorResponse("str(e)", StatusServerError)

years(r) ==
  LET rows == YearsQuery(table)
      some == SelectSeq(rows, LAMBDA y : ~y.null)
  IN ListResponse([i \in 1..Len(some) |-> some[i].n], StatusOk)

makes(r) == ListResponse(MakesQuery(table, ArgInt(r.year).n), StatusOk)

models(r) ==
  ListResponse(ModelsQuery(table, ArgInt(r.year).n, ArgStr(r.make).s), StatusOk)

\* grade reading the matching rows backwards on every second connection.
gradeByConnection(r) ==
  LET Keep(x) == /\ SqlEqNum(CastYear(x), ArgInt(r.year).n)
                 /\ SqlEqText(x.Make, ArgStr(r.make).s)
                 /\ SqlEqText(x.Model, ArgStr(r.model).s)
                 /\ Gradeable(x)
      hit == SelectSeq(table, Keep)
      row == IF r.db % 2 = 0 THEN hit[Len(hit)] ELSE hit[1]
  IN IF hit = <<>> THEN ErrorResponse("Not found", StatusNotFound)
     ELSE GradeResponse(SqlRound1(row.Score.n), SqlRound1(row.Certainty.n))

grade(r) ==
  LET row == GradeQuery(table, ArgInt(r.year).n, ArgStr(r.make).s,
                        ArgStr(r.model).s)
  IN IF row = <<>> THEN ErrorResponse("Not found", StatusNotFound)
     ELSE GradeResponse(row[1].ScoreRounded, row[1].CertaintyRounded)

health(r) ==
  LET exists == source # "notable"
  IN HealthResponse(exists, IF exists THEN Len(table) ELSE 0,
                    IF exists THEN CountReady(table) ELSE 0)

TryResponse(r) ==
  CASE r.op = "years" -> years(r)
    [] r.op = "makes" -> makes(r)
    [] r.op = "models" -> models(r)
    [] r.op = "grade" -> grade(r)
    [] r.op = "health" -> health(r)

\* sqlite3.connect raises: the file cannot be opened read-only.
ConnectRaises == source = "unreachable"

\* db.execute raises: the file is no database or lacks the columns, or the
\* table a data query reads is missing (health looks before it counts).
ExecuteRaises(r) ==
  \/ source = "malformed"
  \/ source = "notable" /\ r.op # "health"

----------------------------------------------------------------------------
(* Requests in flight and connections.                                     *)

Workers == 1..NumWorkers

ConnIds == 1..NumWorkers

Idle ==
  [op |-> "", year |-> None, make |-> None, model |-> None,
   pc |-> "idle", db |-> 0, opens |-> 0, resp |-> NoResponse]

NoConn == [state |-> "free", owner |-> 0, users |-> {}]

TypeOK ==
  /\ Len(table) <= MaxRows
  /\ \A i \in 1..Len(table) : table[i] \in Rows
  /\ source \in Sources
  /\ \A w \in Workers :
       /\ req[w].pc \in {"idle", "handler", "query", "teardown", "done"}
       /\ req[w].db \in {0} \cup ConnIds
  /\ \A c \in ConnIds : conns[c].state \in {"free", "open", "closed"}

Init ==
  /\ \/ source = "ok" /\ table \in TablesOf(Rows, MaxRows)
     \/ source \in {"unreachable", "malformed"} /\ table \in TablesOf(Rows, 1)
     \/ source = "notable" /\ table = <<>>
  /\ req = [w \in Workers |-> Idle]
  /\ conns = [c \in ConnIds |-> NoConn]

InitConc ==
  /\ \/ source = "ok" /\ table \in TablesOf(DuplicateRows, MaxRows)
     \/ source \in {"unreachable", "malformed"} /\ table = <<BaseRow>>
     \/ source = "notable" /\ table = <<>>
  /\ req = [w \in Workers |-> Idle]
  /\ conns = [c \in ConnIds |-> NoConn]

\* A request arrives at worker w: a fresh application context is pushed; the
\* closed connection object of the previous context is garbage.
Dispatch(w, c) ==
  /\ req[w].pc \in {"idle", "done"}
  /\ req' = [req EXCEPT ![w] =
               [op |-> c.op, year |-> c.year, make |-> c.make, model |-> c.model,
                pc |-> "handler", db |-> 0, opens |-> 0, resp |-> NoResponse]]
  /\ conns' = [i \in ConnIds |->
                 IF conns[i].owner = w /\ conns[i].state = "closed"
                 THEN NoConn ELSE conns[i]]
  /\ UNCHANGED <<table, source>>

\* The handler returns without calling get_db.
Return(w) ==
  /\ req[w].pc = "handler"
  /\ EarlyReturn(req[w])
  /\ req' = [req EXCEPT ![w].resp = EarlyResponse(req[w]), ![w].pc = "teardown"]
  /\ UNCHANGED <<table, source, conns>>

\* get_db(): "db" is not in g, sqlite3.connect opens a connection and g keeps it.
get_db(w) ==
  /\ req[w].pc = "handler"
  /\ ~EarlyReturn(req[w])
  /\ req[w].db = 0
  /\ ~ConnectRaises
  /\ \E i \in ConnIds :
       /\ conns[i].state = "free"
       /\ \A j \in ConnIds : conns[j].state = "free" => i <= j
       /\ conns' = [conns EXCEPT ![i] = [state |-> "open", owner |-> w, users |-> {}]]
       /\ req' = [req EXCEPT ![w].db = i, ![w].opens = @ + 1, ![w].pc = "query"]
  /\ UNCHANGED <<table, source>>

\* get_db(): sqlite3.connect raises, the handler's except branch answers.
get_db_raises(w) ==
  /\ req[w].pc = "handler"
  /\ ~EarlyReturn(req[w])
  /\ req[w].db = 0
  /\ ConnectRaises
  /\ req' = [req EXCEPT ![w].resp = ExceptResponse(req[w]), ![w].pc = "teardown"]
  /\ UNCHANGED <<table, source, conns>>

\* db.execute(...) on the connection get_db returned, and the handler's return.
Execute(w) ==
  /\ req[w].pc = "query"
  /\ conns' = [conns EXCEPT ![req[w].db].users = @ \cup {w}]
  /\ req' = [req EXCEPT
               ![w].resp = IF ExecuteRaises(req[w]) THEN ExceptResponse(req[w])
                           ELSE TryResponse(req[w]),
               ![w].pc = "teardown"]
  /\ UNCHANGED <<table, source>>

\* close_db popping the connection from g without closing it.
close_db_pop_only(w) ==
  /\ req[w].pc = "teardown"
  /\ req' = [req EXCEPT ![w].db = 0, ![w].pc = "done"]
  /\ UNCHANGED <<table, source, conns>>

\* teardown_appcontext: db = g.pop("db", None); db.close() when there is one.
close_db(w) ==
  /\ req[w].pc = "teardown"
  /\ conns' = IF req[w].db # 0
              THEN [conns EXCEPT ![req[w].db].state = "closed"]
              ELSE conns
  /\ req' = [req EXCEPT ![w].db = 0, ![w].pc = "done"]
  /\ UNCHANGED <<table, source>>

Serve(w) ==
  \/ Return(w)
  \/ get_db(w)
  \/ get_db_raises(w)
  \/ Execute(w)
  \/ close_db(w)

\* One worker, every request.
Next ==
  \/ \E c \in Calls : Dispatch(1, c)
  \/ Serve(1)

Spec == Init /\ [][Next]_vars

\* Every worker, serving concurrently.
NextConc ==
  \/ \E w \in Workers : \E c \in ConcCalls : Dispatch(w, c)
  \/ \E w \in Workers : Serve(w)

SpecConc == InitConc /\ [][NextConc]_vars

----------------------------------------------------------------------------
(* What the properties speak of.                                           *)

\* The handler of worker w has produced its response.
Responded(w) == req[w].pc \in {"teardown", "done"}

\* A year text that is an integer once trimmed: digits only, at least one.
NumericText(s) == s # <<>> /\ \A i \in 1..Len(s) : s[i] \in Digit

\* The year a record states: none when the text is absent, empty after
\* trimming, or non-numeric.
ParsedYear(row) ==
  IF ~row.ModelYear.null /\ NumericText(RStrip(LStrip(row.ModelYear.s)))
  THEN Int_(DigitPrefix(RStrip(LStrip(row.ModelYear.s)), 0))
  ELSE NoInt

GradeableRows == {table[i] : i \in 1..Len(table)} \cap {x \in Rows : Gradeable(x)}

\* The gradeable records of year y (records without a year belong to none).
RowsOfYear(y) == {x \in GradeableRows : ParsedYear(x) = Int_(y)}

ValidYear(r) == ArgInt(r.year).some

Missing(p) == ~p.some \/ p.s = <<>>

Blank(p) == ~p.some \/ RStrip(LStrip(p.s)) = <<>>

StrictlyAscending(q) ==
  \A i \in 1..Len(q) : \A j \in 1..Len(q) :
    i < j => (q[i] # q[j] /\ ValueLeq(q[i], q[j]))

\* What the service answers to the request r when the data source works.
Answer(r) == IF EarlyReturn(r) THEN EarlyResponse(r) ELSE TryResponse(r)

\* The parameter a client sends for a value it was handed: a JSON null has no
\* text and is sent as no parameter.
Handed(v, p) == IF v.null THEN ~p.some ELSE p = Str(v.s)

----------------------------------------------------------------------------
(* C1: a record whose year text is absent, empty after trimming or         *)
(* non-numeric contributes to no year-scoped result: every year ListYears   *)
(* returns, every make ListMakes(Y) returns, every model ListModels(Y, M)   *)
(* returns and every match of GetGrade(Y, M, Mo) comes from a gradeable     *)
(* record whose trimmed year text is the integer Y, and none of them        *)
(* answers with an error.                                                   *)
C1_MalformedYearExcluded ==
  \A w \in Workers :
    LET r == req[w]
        y == ArgInt(r.year).n
    IN (Responded(w) /\ source = "ok") =>
         /\ r.op = "years" =>
              /\ r.resp.status = StatusOk
              /\ \A i \in 1..Len(r.resp.items) : RowsOfYear(r.resp.items[i]) # {}
         /\ (r.op = "makes" /\ ValidYear(r)) =>
              /\ r.resp.status = StatusOk
              /\ \A i \in 1..Len(r.resp.items) :
                   \E x \in RowsOfYear(y) : x.Make = r.resp.items[i]
         /\ (r.op = "models" /\ ValidYear(r) /\ ~Missing(r.make)) =>
              /\ r.resp.status = StatusOk
              /\ \A i \in 1..Len(r.resp.items) :
                   \E x \in RowsOfYear(y) :
                     x.Make = Text(r.make.s) /\ x.Model = r.resp.items[i]
         /\ (r.op = "grade" /\ ValidYear(r) /\ ~Missing(r.make)
               /\ ~Missing(r.model)) =>
              /\ r.resp.status # StatusServerError
              /\ r.resp.status = StatusOk =>
                   \E x \in RowsOfYear(y) :
                     x.Make = Text(r.make.s) /\ x.Model = Text(r.model.s)

(* C2: a well-formed GetGrade request is answered NotFound (404, "Not      *)
(* found") exactly when no gradeable record has a trimmed year text that    *)
(* parses to Y, Make equal to M and Model equal to Mo.                      *)
C2_NotFoundIffNoMatch ==
  \A w \in Workers :
    LET r == req[w]
    IN (Responded(w) /\ source = "ok" /\ r.op = "grade" /\ ValidYear(r)
          /\ ~Missing(r.make) /\ ~Missing(r.model)) =>
         ((r.resp = ErrorResponse("Not found", StatusNotFound))
            <=> ~\E x \in RowsOfYear(ArgInt(r.year).n) :
                   x.Make = Text(r.make.s) /\ x.Model = Text(r.model.s))

(* C3, as stated: ListModels returns an empty sequence whenever its year   *)
(* is absent or no integer, or its make is absent or empty after trimming.  *)
C3_BlankMakeEmpty ==
  \A w \in Workers :
    LET r == req[w]
    IN (Responded(w) /\ r.op = "models" /\ (~ValidYear(r) \/ Blank(r.make))) =>
         (r.resp.kind = "list" /\ r.resp.items = <<>>)

(* C3, amended: ListModels returns an empty sequence, with status 200 and  *)
(* without opening the data source, whenever its year is absent or no       *)
(* integer, or its make is absent or the empty string; a make of spaces     *)
(* only is not rejected: it is looked up like any other make, and the       *)
(* models of the gradeable records with that very Make are returned.        *)
C3_EmptyMakeEmpty ==
  \A w \in Workers :
    LET r == req[w]
    IN (Responded(w) /\ r.op = "models") =>
         /\ (~ValidYear(r) \/ Missing(r.make)) =>
              (r.resp = ListResponse(<<>>, StatusOk) /\ r.opens = 0)
         /\ (ValidYear(r) /\ ~Missing(r.make) /\ source = "ok") =>
              /\ r.opens = 1
              /\ {r.resp.items[i] : i \in 1..Len(r.resp.items)} =
                   {x.Model : x \in {z \in GradeableRows :
                                       /\ SqlEqNum(CastYear(z), ArgInt(r.year).n)
                                       /\ z.Make = Text(r.make.s)}}

\* ListModels was asked with an empty make for a year in which a gradeable
\* record has the empty Make, and returned nothing.
C3_Witness ==
  \E w \in Workers :
       /\ Responded(w) /\ req[w].op = "models" /\ req[w].make = Str(<<>>)
       /\ ValidYear(req[w]) /\ source = "ok"
       /\ \E x \in RowsOfYear(ArgInt(req[w].year).n) : x.Make = Text(<<>>)
       /\ req[w].resp.items = <<>>

(* C4: for a valid year Y and a non-empty make M, ListModels(Y, M) is      *)
(* exactly the distinct Model values of the gradeable records whose parsed  *)
(* year is Y and whose Make is M, each once, in ascending order.            *)
C4_ModelsExact ==
  \A w \in Workers :
    LET r == req[w]
    IN (Responded(w) /\ source = "ok" /\ r.op = "models" /\ ValidYear(r)
          /\ ~Missing(r.make)) =>
         /\ r.resp.status = StatusOk
         /\ {r.resp.items[i] : i \in 1..Len(r.resp.items)} =
              {x.Model : x \in {z \in RowsOfYear(ArgInt(r.year).n) :
                                  z.Make = Text(r.make.s)}}
         /\ StrictlyAscending(r.resp.items)

(* C5: under any interleaving of requests and whatever their outcome, a    *)
(* request opens at most one connection, the connection in its context is   *)
(* the one it opened, nobody else uses it, and it is closed once the        *)
(* request has completed: no connection stays open after its request.       *)
C5_ConnectionScoped ==
  /\ \A w \in Workers :
       /\ req[w].opens <= 1
       /\ req[w].db # 0 =>
            (conns[req[w].db].owner = w /\ conns[req[w].db].state = "open")
       /\ req[w].pc \in {"idle", "handler", "done"} =>
            (req[w].db = 0 /\ \A i \in ConnIds :
                                conns[i].owner = w => conns[i].state = "closed")
  /\ \A i \in ConnIds :
       /\ conns[i].users \subseteq {conns[i].owner}
       /\ conns[i].state = "open" =>
            (req[conns[i].owner].db = i
               /\ req[conns[i].owner].pc \in {"query", "teardown"})
       /\ \A j \in ConnIds :
            (i # j /\ conns[i].state # "free" /\ conns[j].state # "free") =>
              conns[i].owner # conns[j].owner

\* One request has completed and its connection is closed while another
\* request is using a connection of its own.
C5_Witness ==
  \E w \in Workers : \E v \in Workers \ {w} :
    /\ req[w].pc = "done" /\ req[w].opens = 1
    /\ \E i \in ConnIds :
         conns[i].owner = w /\ conns[i].state = "closed" /\ conns[i].users = {w}
    /\ req[v].pc = "teardown" /\ req[v].db # 0
    /\ conns[req[v].db].users = {v}

(* C6: GetGrade answers InvalidRequest (400, "Missing params") whenever    *)
(* year, make or model is missing or empty or the year is no integer,       *)
(* whatever the table holds and whether or not the data source can be       *)
(* reached: the data source is not even opened.                             *)
C6_MissingParams ==
  \A w \in Workers :
    LET r == req[w]
    IN (Responded(w) /\ r.op = "grade"
          /\ (~ValidYear(r) \/ Missing(r.make) \/ Missing(r.model))) =>
         /\ r.resp = ErrorResponse("Missing params", StatusBadRequest)
         /\ r.opens = 0

\* GetGrade was refused for an unparsable year while the data source cannot
\* be opened.
C6_Witness ==
  \E w \in Workers :
    /\ Responded(w) /\ req[w].op = "grade"
    /\ source = "unreachable" /\ table # <<>>
    /\ req[w].resp.status = StatusBadRequest
    /\ req[w].year = Str(<<"x">>)

(* C7: when the data access fails, at the opening or at the query, a list  *)
(* operation with valid inputs returns the empty sequence with status 500,  *)
(* and GetGrade with valid inputs returns ServerError (500, "Server error") *)
(* without score or certainty.                                              *)
C7_FailureResponses ==
  \A w \in Workers :
    LET r == req[w]
        valid == CASE r.op = "years" -> TRUE
                   [] r.op = "makes" -> ValidYear(r)
                   [] r.op = "models" -> ValidYear(r) /\ ~Missing(r.make)
                   [] r.op = "grade" -> /\ ValidYear(r) /\ ~Missing(r.make)
                                        /\ ~Missing(r.model)
                   [] OTHER -> FALSE
    IN (Responded(w) /\ source # "ok" /\ valid) =>
         IF r.op = "grade"
         THEN r.resp = ErrorResponse("Server error", StatusServerError)
         ELSE r.resp = ListResponse(<<>>, StatusServerError)

\* ListMakes failed at the query, on a connection it had opened, for a year
\* of which the table holds a gradeable record.
C7_Witness ==
  \E w \in Workers :
    /\ Responded(w) /\ req[w].op = "makes" /\ ValidYear(req[w])
    /\ source = "malformed" /\ req[w].opens = 1
    /\ RowsOfYear(ArgInt(req[w].year).n) # {}
    /\ req[w].resp.status = StatusServerError

C9_YearsStrictlyDescending ==
  \A w \in Workers :
    LET q == req[w].resp.items
    IN (Responded(w) /\ source = "ok" /\ req[w].op = "years") =>
         /\ req[w].resp.status = StatusOk
         /\ \A i \in 1..Len(q) : \A j \in 1..Len(q) : i < j => q[i] > q[j]

\* ListYears answered one year for two gradeable records storing it as
\* different texts.
C9_Witness ==
  \E w \in Workers :
    /\ Responded(w) /\ source = "ok" /\ req[w].op = "years"
    /\ Len(table) = 2 /\ Gradeable(table[1]) /\ Gradeable(table[2])
    /\ table[1].ModelYear # table[2].ModelYear
    /\ ParsedYear(table[1]).some /\ ParsedYear(table[1]) = ParsedYear(table[2])
    /\ req[w].resp.items = <<ParsedYear(table[1]).n>>

(* C10: every value one step of the filter chain hands out is accepted by  *)
(* the next: ListMakes(Y) is non-empty for every Y of ListYears,            *)
(* ListModels(Y, M) is non-empty for every M of ListMakes(Y), and           *)
(* GetGrade(Y, M, Mo) succeeds for every Mo of ListModels(Y, M), also for   *)
(* records whose Make or Model is null or the empty string.                 *)
C10_CascadeConsistent ==
  \A w \in Workers :
    LET r == req[w]
        y == ArgInt(r.year).n
        ys == Answer([r EXCEPT !.op = "years"]).items
        ms == Answer([r EXCEPT !.op = "makes"]).items
        mos == Answer([r EXCEPT !.op = "models"]).items
        handedYear == ValidYear(r) /\ \E i \in 1..Len(ys) : ys[i] = y
        handedMake == \E i \in 1..Len(ms) : Handed(ms[i], r.make)
    IN (Responded(w) /\ source = "ok") =>
         /\ (r.op = "makes" /\ handedYear) => r.resp.items # <<>>
         /\ (r.op = "models" /\ handedYear /\ handedMake) => r.resp.items # <<>>
         /\ (r.op = "grade" /\ handedYear /\ handedMake
               /\ \E i \in 1..Len(mos) : Handed(mos[i], r.model)) =>
              r.resp.kind = "grade"

====
